---- MODULE Spec2Model ----
(***************************************************************************)
(* Model of the Roboflow upload scripts of modelo_humo_fuego:              *)
(*   img_etiquetas.py  batch upload of images with optional YOLO labels    *)
(*   subir.py          batch upload of *.jpg images                        *)
(*   subir2.py         single-image upload with exit codes                 *)
(*   upload.py         sample script                                       *)
(* The remote client (roboflow package) is outside the repository: every   *)
(* call to it either returns or raises, chosen nondeterministically.       *)
(* File names are sequences of one-character strings.                      *)
(***************************************************************************)
EXTENDS Integers, Sequences, FiniteSets, TLC

VARIABLES
    script,        \* which script runs
    apiKey,        \* the script's API key: "unread", "absent" or "present"
    argWorkspace,  \* subir2: --workspace / ROBOFLOW_WORKSPACE given
    argProject,    \* subir2: --project / ROBOFLOW_PROJECT given
    argImage,      \* subir2: what --image points to: "file", "dir", "missing"
    imgDir,        \* split -> "unseen", or what img_dir.exists() found:
                   \* "missing" or "present"
    images,        \* split -> entries of the image directory, as listed
    labels,        \* split -> names present in the label directory, as found
                   \* when the script enters the split
    pc,            \* position of the script
    splitIdx,      \* index into SPLITS of the split being processed
    pending,       \* entries of the current directory listing not yet visited
    cur,           \* name of the image being uploaded
    kwargs,        \* keyword arguments assembled for project.upload
    resp,          \* subir2: value returned by project.upload
    setupCalls,    \* remote-client calls made before the uploads, in order
    uploads,       \* project.upload calls made, in order, with their result
    fsReads,       \* number of accesses to the dataset on the filesystem
    out,           \* lines printed, in order
    exitCode,      \* exit status of the process, NoExit while running
    fsChanges      \* label files created/deleted by other processes so far

vars == <<script, apiKey, argWorkspace, argProject, argImage,
          imgDir, images, labels, pc, splitIdx, pending, cur, kwargs,
          resp, setupCalls, uploads, fsReads, out, exitCode, fsChanges>>

---------------------------------------------------------------------------
\* Bounds of the model
MaxFiles == 2
MaxLabels == 1
MaxFsChanges == 1

---------------------------------------------------------------------------
\* Values
None == "None"
NoExit == 0 - 1
NoName == <<>>

Scripts == {"img_etiquetas", "subir", "subir2", "upload"}
Batch == {"img_etiquetas", "subir"}

\* keys of SPLITS / splits in insertion order
SPLITS == <<"train", "valid", "test">>
SplitNames == {SPLITS[i] : i \in 1..Len(SPLITS)}

NumRetryUploads == 3
DefaultRetries == 3

EXTS == { <<".", "j", "p", "g">>, <<".", "j", "p", "e", "g">>,
          <<".", "p", "n", "g">>, <<".", "b", "m", "p">>,
          <<".", "w", "e", "b", "p">> }

TxtExt == <<".", "t", "x", "t">>
JpgExt == <<".", "j", "p", "g">>

\* Directory entries the image directories are populated from
ImgCatalog ==
    { [name |-> <<"a", ".", "j", "p", "g">>,                kind |-> "file"],
      [name |-> <<"a", ".", "b", ".", "J", "P", "E", "G">>, kind |-> "file"],
      [name |-> <<"n", ".", "t", "x", "t">>,                kind |-> "file"],
      [name |-> <<"d", ".", "j", "p", "g">>,                kind |-> "dir"] }

\* Names the label directories are populated from
LabelCatalog ==
    { <<"a", ".", "t", "x", "t">>,
      <<"a", "b", ".", "t", "x", "t">>,
      <<"A", ".", "t", "x", "t">>,
      <<"a", ".", "b", ".", "t", "x", "t">> }

\* Values project.upload may return (subir2 inspects the value)
Responses == {"none", "dict_plain", "dict_link", "dict_image_link",
              "dict_image_not_dict"}

---------------------------------------------------------------------------
\* str.lower() on the characters of a name
UPPER == <<"A", "B", "C", "D", "E", "F", "G", "H", "I", "J", "K", "L", "M",
           "N", "O", "P", "Q", "R", "S", "T", "U", "V", "W", "X", "Y", "Z">>
LOWER == <<"a", "b", "c", "d", "e", "f", "g", "h", "i", "j", "k", "l", "m",
           "n", "o", "p", "q", "r", "s", "t", "u", "v", "w", "x", "y", "z">>

ToLower ==
    [c \in {UPPER[i] : i \in 1..Len(UPPER)} |->
        LOWER[CHOOSE i \in 1..Len(UPPER) : UPPER[i] = c]]

LowerChar(c) == IF c \in DOMAIN ToLower THEN ToLower[c] ELSE c

Lower(s) == [i \in 1..Len(s) |-> LowerChar(s[i])]

\* name.rfind("."), 1-based, 0 when there is no dot
RFindDot(name) ==
    IF \E i \in 1..Len(name) : name[i] = "."
    THEN CHOOSE i \in 1..Len(name) :
            name[i] = "." /\ \A j \in (i+1)..Len(name) : name[j] # "."
    ELSE 0

\* Path.suffix: the last dot-separated part, with its dot
Suffix(name) ==
    LET i == RFindDot(name)
    IN  IF 1 < i /\ i < Len(name) THEN SubSeq(name, i, Len(name)) ELSE <<>>

StemFirstDot(name) ==
    IF \E i \in 2..Len(name) : name[i] = "."
    THEN SubSeq(name, 1, (CHOOSE i \in 2..Len(name) :
            name[i] = "." /\ \A j \in 2..(i-1) : name[j] # ".") - 1)
    ELSE name

\* Path.stem: the name without its suffix
Stem(name) ==
    LET i == RFindDot(name)
    IN  IF 1 < i /\ i < Len(name) THEN SubSeq(name, 1, i - 1) ELSE name

\* lbl_dir / (img_path.stem + ".txt")
LabelName(name) == Stem(name) \o TxtExt

\* folder_path.glob("*.jpg")
GlobJpg(name) ==
    /\ Len(name) >= Len(JpgExt)
    /\ SubSeq(name, Len(name) - Len(JpgExt) + 1, Len(name)) = JpgExt

AcceptsCaseSensitive(s, e) ==
    IF s = "img_etiquetas"
    THEN e.kind = "file" /\ Suffix(e.name) \in EXTS
    ELSE GlobJpg(e.name)

\* The entries of a listing a batch script uploads
Accepts(s, e) ==
    IF s = "img_etiquetas"
    THEN e.kind = "file" /\ Lower(Suffix(e.name)) \in EXTS
    ELSE GlobJpg(e.name)

\* os.getenv("ROBOFLOW_API_KEY") or os.getenv("roboflow_api_key");
\* upload.py reads roboflow_api_key only
ApiKeyPresent(s, primary, fallback) ==
    IF s = "upload" THEN fallback ELSE primary \/ fallback

ReadApiKey(s, primary, fallback) ==
    IF ApiKeyPresent(s, primary, fallback) THEN "present" ELSE "absent"

\* label_path.exists()
LabelExists(lbls, split, name) == LabelName(name) \in lbls[split]

\* kwargs of project.upload in the batch scripts
BatchKwargs(s, lbls, split, name) ==
    [image |-> name, split |-> split, retries |-> NumRetryUploads,
     ann |-> IF s = "img_etiquetas" /\ LabelExists(lbls, split, name)
             THEN LabelName(name) ELSE NoName]

\* Lines printed
Line(kind, split, name, tag) ==
    [kind |-> kind, split |-> split, name |-> name, tag |-> tag]

WarnLine(split) == <<Line("warn", split, NoName, None)>>
HeaderLine(split) == <<Line("header", split, NoName, None)>>

OkLine(s, lbls, split, name) ==
    <<Line("ok", split, name,
           IF s = "img_etiquetas"
           THEN (IF LabelExists(lbls, split, name) THEN "+ label"
                 ELSE "solo imagen")
           ELSE None)>>

NoFailLine(split, name) == <<>>

FailLine(split, name) == <<Line("fail", split, name, None)>>

BreakOnMissing(i) == Len(SPLITS) + 1

\* "continue" after a missing image directory: on to the next split
IdxAfterMissing(i) == i + 1

AbortOnUploadError(s) == "crashed"

\* where a batch script goes after project.upload raised: the except clause
\* prints and the loop goes on
PcAfterUploadError(s) == "iter"

\* subir2: the statements after project.upload inside the try block raise
\* when resp is a dict whose "image" value has no .get
PostProcessRaises(r) == r = "dict_image_not_dict"

---------------------------------------------------------------------------
\* Inputs and initial state

LabelTotal(lbls) ==
    Cardinality(UNION {{<<s, l>> : l \in lbls[s]} : s \in SplitNames})

BoundedSubsets(S, k) == {P \in SUBSET S : Cardinality(P) <= k}

NoFiles == [s \in SplitNames |-> {}]

FileTotal(imgs) ==
    Cardinality(UNION {{<<s, e>> : e \in imgs[s]} : s \in SplitNames})

\* The scripts start with nothing read: the environment, the directories and
\* the remote service are consulted by the steps below.
Init ==
    /\ script \in Scripts
    /\ IF script = "subir2"
       THEN /\ argWorkspace \in BOOLEAN
            /\ argProject \in BOOLEAN
            /\ argImage \in {"file", "dir", "missing"}
       ELSE argWorkspace = TRUE /\ argProject = TRUE /\ argImage = "missing"
    /\ apiKey = "unread"
    /\ imgDir = [s \in SplitNames |-> "unseen"]
    /\ images = NoFiles
    /\ labels = NoFiles
    /\ pc = "start"
    /\ splitIdx = 0
    /\ pending = {}
    /\ cur = NoName
    /\ kwargs = None
    /\ resp = None
    /\ setupCalls = <<>>
    /\ uploads = <<>>
    /\ fsReads = 0
    /\ out = <<>>
    /\ exitCode = NoExit
    /\ fsChanges = 0

---------------------------------------------------------------------------
\* Actions

Terminated == pc \in {"done", "crashed", "exit"}

Exit(code) == pc' = "exit" /\ exitCode' = code

\* an exception nothing catches: traceback, exit status 1
Crash == pc' = "crashed" /\ exitCode' = 1

\* img_etiquetas.py 6-9, subir.py 7-12: the credential check
LoadEnv ==
    /\ pc = "start" /\ script \in Batch
    /\ \E primary, fallback \in BOOLEAN :
         /\ apiKey' = ReadApiKey(script, primary, fallback)
         /\ IF apiKey' = "absent"
            THEN Crash
            ELSE pc' = "client" /\ UNCHANGED exitCode
    /\ UNCHANGED <<script, argWorkspace, argProject,
                   argImage, imgDir, images, labels, splitIdx, pending,
                   cur, kwargs, resp, setupCalls, uploads, fsReads, out,
                   fsChanges>>

\* subir2.py 100-117: api key, workspace and project must be given
CheckConfig ==
    /\ pc = "start" /\ script = "subir2"
    /\ \E primary, fallback \in BOOLEAN :
         /\ apiKey' = ReadApiKey(script, primary, fallback)
         /\ IF apiKey' = "absent" THEN Exit(2)
            ELSE IF ~argWorkspace THEN Exit(2)
            ELSE IF ~argProject THEN Exit(2)
            ELSE pc' = "checkimage" /\ UNCHANGED exitCode
    /\ UNCHANGED <<script, argWorkspace, argProject,
                   argImage, imgDir, images, labels, splitIdx, pending,
                   cur, kwargs, resp, setupCalls, uploads, fsReads, out,
                   fsChanges>>

\* subir2.py 119-122: the image path must be an existing file
CheckImage ==
    /\ pc = "checkimage"
    /\ fsReads' = fsReads + 1
    /\ IF argImage # "file" THEN Exit(3)
       ELSE pc' = "client" /\ UNCHANGED exitCode
    /\ UNCHANGED <<script, apiKey, argWorkspace, argProject,
                   argImage, imgDir, images, labels, splitIdx, pending,
                   cur, kwargs, resp, setupCalls, uploads, out, fsChanges>>

\* upload.py 5-8: the key is read and handed to the client unchecked
SampleStart ==
    /\ pc = "start" /\ script = "upload"
    /\ \E primary, fallback \in BOOLEAN :
         apiKey' = ReadApiKey(script, primary, fallback)
    /\ pc' = "client"
    /\ UNCHANGED <<script, argWorkspace, argProject,
                   argImage, imgDir, images, labels, splitIdx, pending,
                   cur, kwargs, resp, setupCalls, uploads, fsReads, out,
                   exitCode, fsChanges>>

\* a remote-client call of the setup failed: subir2 exits with the step's
\* code, the other scripts do not catch
SetupFailed(code) == IF script = "subir2" THEN Exit(code) ELSE Crash

\* Roboflow(api_key=...)
ClientInit ==
    /\ pc = "client"
    /\ setupCalls' = Append(setupCalls, "client")
    /\ \E ok \in BOOLEAN :
         IF ok
         THEN /\ pc' = IF script = "upload" THEN "workspace0" ELSE "workspace"
              /\ UNCHANGED exitCode
         ELSE SetupFailed(4)
    /\ UNCHANGED <<script, apiKey, argWorkspace, argProject,
                   argImage, imgDir, images, labels, splitIdx, pending,
                   cur, kwargs, resp, uploads, fsReads, out, fsChanges>>

\* rf.workspace(...); upload.py first calls rf.workspace() and prints it
WorkspaceLookup ==
    /\ pc \in {"workspace0", "workspace"}
    /\ setupCalls' = Append(setupCalls, "workspace")
    /\ \E ok \in BOOLEAN :
         IF ok
         THEN /\ pc' = IF pc = "workspace0" THEN "workspace" ELSE "project"
              /\ UNCHANGED exitCode
         ELSE SetupFailed(5)
    /\ UNCHANGED <<script, apiKey, argWorkspace, argProject,
                   argImage, imgDir, images, labels, splitIdx, pending,
                   cur, kwargs, resp, uploads, fsReads, out, fsChanges>>

\* subir2.py 145-155: upload_kwargs with the None values dropped
SingleKwargs ==
    [image |-> <<"i">>, split |-> None, retries |-> DefaultRetries,
     ann |-> NoName]

\* upload.py 20 and 32-40
SampleKwargs(n) ==
    [image |-> <<"U">>, split |-> IF n = 0 THEN None ELSE "train",
     retries |-> IF n = 0 THEN 0 ELSE NumRetryUploads, ann |-> NoName]

\* workspace.project(...)
ProjectLookup ==
    /\ pc = "project"
    /\ setupCalls' = Append(setupCalls, "project")
    /\ \E ok \in BOOLEAN :
         IF ok
         THEN /\ UNCHANGED exitCode
              /\ IF script \in Batch
                 THEN pc' = "split" /\ splitIdx' = 1 /\ UNCHANGED kwargs
                 ELSE /\ pc' = "upload" /\ UNCHANGED splitIdx
                      /\ kwargs' = IF script = "subir2" THEN SingleKwargs
                                   ELSE SampleKwargs(0)
         ELSE SetupFailed(6) /\ UNCHANGED <<splitIdx, kwargs>>
    /\ UNCHANGED <<script, apiKey, argWorkspace, argProject,
                   argImage, imgDir, images, labels, pending, cur, resp,
                   uploads, fsReads, out, fsChanges>>

\* the head of the split loop: the next split, or the end of the script
NextSplit ==
    /\ pc = "split"
    /\ IF splitIdx > Len(SPLITS)
       THEN /\ pc' = "done" /\ exitCode' = 0
            /\ UNCHANGED <<splitIdx, pending, fsReads, out, imgDir, images,
                           labels>>
       ELSE LET s == SPLITS[splitIdx] IN
            /\ fsReads' = fsReads + 1
            /\ UNCHANGED exitCode
            /\ \E found \in {"missing", "present"} :
                 /\ imgDir' = [imgDir EXCEPT ![s] = found]
                 /\ IF found = "missing"
                    THEN /\ out' = out \o WarnLine(s)
                         /\ splitIdx' = IdxAfterMissing(splitIdx)
                         /\ UNCHANGED <<pc, pending, images, labels>>
                    ELSE /\ out' = out \o HeaderLine(s)
                         /\ \E listing \in BoundedSubsets(ImgCatalog,
                                      MaxFiles - FileTotal(images)) :
                              /\ images' = [images EXCEPT ![s] = listing]
                              /\ pending' =
                                    IF script = "subir"
                                    THEN {e \in listing : Accepts(script, e)}
                                    ELSE listing
                         /\ IF script = "img_etiquetas"
                            THEN \E L \in BoundedSubsets(LabelCatalog,
                                        MaxLabels - LabelTotal(labels)) :
                                   labels' = [labels EXCEPT ![s] = L]
                            ELSE UNCHANGED labels
                         /\ pc' = "iter"
                         /\ UNCHANGED splitIdx
    /\ UNCHANGED <<script, apiKey, argWorkspace, argProject, argImage, cur,
                   kwargs, resp, setupCalls, uploads, fsChanges>>

\* img_etiquetas.py 30-31: not a file, or not an image extension
SkipEntry ==
    /\ pc = "iter" /\ script = "img_etiquetas"
    /\ \E e \in pending :
         /\ ~Accepts(script, e)
         /\ pending' = pending \ {e}
    /\ fsReads' = fsReads + 1
    /\ UNCHANGED <<script, apiKey, argWorkspace, argProject,
                   argImage, imgDir, images, labels, pc, splitIdx, cur,
                   kwargs, resp, setupCalls, uploads, out, exitCode, fsChanges>>

\* the next image of the listing and the arguments of its upload
NextImage ==
    /\ pc = "iter"
    /\ \E e \in pending :
         /\ Accepts(script, e)
         /\ pending' = pending \ {e}
         /\ cur' = e.name
         /\ kwargs' = BatchKwargs(script, labels, SPLITS[splitIdx], e.name)
    /\ fsReads' = fsReads + 1
    /\ pc' = "upload"
    /\ UNCHANGED <<script, apiKey, argWorkspace, argProject,
                   argImage, imgDir, images, labels, splitIdx, resp,
                   setupCalls, uploads, out, exitCode, fsChanges>>

\* the listing is exhausted
EndSplit ==
    /\ pc = "iter" /\ pending = {}
    /\ splitIdx' = splitIdx + 1
    /\ pc' = "split"
    /\ UNCHANGED <<script, apiKey, argWorkspace, argProject,
                   argImage, imgDir, images, labels, pending, cur, kwargs,
                   resp, setupCalls, uploads, fsReads, out, exitCode, fsChanges>>

UploadCall(ok) ==
    [image |-> kwargs.image, split |-> kwargs.split,
     retries |-> kwargs.retries, ann |-> kwargs.ann, ok |-> ok]

\* project.upload(**kwargs) in a batch script, and its except clause
BatchUpload ==
    /\ pc = "upload" /\ script \in Batch
    /\ \E ok \in BOOLEAN :
         /\ uploads' = Append(uploads, UploadCall(ok))
         /\ IF ok
            THEN pc' = "report" /\ UNCHANGED <<out, exitCode>>
            ELSE /\ out' = out \o FailLine(SPLITS[splitIdx], cur)
                 /\ pc' = PcAfterUploadError(script)
                 /\ exitCode' = IF PcAfterUploadError(script) = "crashed"
                                THEN 1 ELSE exitCode
    /\ UNCHANGED <<script, apiKey, argWorkspace, argProject,
                   argImage, imgDir, images, labels, splitIdx, pending,
                   cur, kwargs, resp, setupCalls, fsReads, fsChanges>>

\* the success line of a batch script; img_etiquetas.py 39 asks the
\* filesystem again whether the label exists
BatchReport ==
    /\ pc = "report" /\ script \in Batch
    /\ out' = out \o OkLine(script, labels, SPLITS[splitIdx], cur)
    /\ fsReads' = IF script = "img_etiquetas" THEN fsReads + 1 ELSE fsReads
    /\ pc' = "iter"
    /\ UNCHANGED <<script, apiKey, argWorkspace, argProject,
                   argImage, imgDir, images, labels, splitIdx, pending,
                   cur, kwargs, resp, setupCalls, uploads, exitCode, fsChanges>>

\* another process creates or deletes the label file of the image being
\* uploaded, between img_etiquetas.py 34 and 39
LabelRace ==
    /\ script = "img_etiquetas"
    /\ pc \in {"upload", "report"}
    /\ fsChanges < MaxFsChanges
    /\ fsChanges' = fsChanges + 1
    /\ LET s == SPLITS[splitIdx]
           l == LabelName(cur)
       IN  labels' = [labels EXCEPT ![s] =
                        IF l \in @ THEN @ \ {l} ELSE @ \cup {l}]
    /\ UNCHANGED <<script, apiKey, argWorkspace, argProject,
                   argImage, imgDir, images, pc, splitIdx, pending, cur,
                   kwargs, resp, setupCalls, uploads, fsReads, out, exitCode>>

\* subir2.py 167-168, 179-181: the upload call and the except clause
SingleUpload ==
    /\ pc = "upload" /\ script = "subir2"
    /\ \E ok \in BOOLEAN :
         /\ uploads' = Append(uploads, UploadCall(ok))
         /\ IF ok
            THEN /\ \E r \in Responses : resp' = r
                 /\ pc' = "report" /\ UNCHANGED exitCode
            ELSE Exit(7) /\ UNCHANGED resp
    /\ UNCHANGED <<script, apiKey, argWorkspace, argProject,
                   argImage, imgDir, images, labels, splitIdx, pending,
                   cur, kwargs, setupCalls, fsReads, out, fsChanges>>

\* subir2.py 169-181: the statements after the upload, inside the same try
SingleReport ==
    /\ pc = "report" /\ script = "subir2"
    /\ IF PostProcessRaises(resp)
       THEN /\ Exit(7)
            /\ out' = out \o <<Line("ok", None, kwargs.image, None),
                               Line("fail", None, kwargs.image, None)>>
       ELSE /\ Exit(0)
            /\ out' = Append(out, Line("ok", None, kwargs.image, None))
    /\ UNCHANGED <<script, apiKey, argWorkspace, argProject,
                   argImage, imgDir, images, labels, splitIdx, pending,
                   cur, kwargs, resp, setupCalls, uploads, fsReads, fsChanges>>

\* upload.py 20 and 32: two uploads, nothing caught
SampleUpload ==
    /\ pc = "upload" /\ script = "upload"
    /\ \E ok \in BOOLEAN :
         /\ uploads' = Append(uploads, UploadCall(ok))
         /\ IF ~ok THEN Crash /\ UNCHANGED kwargs
            ELSE IF Len(uploads) = 0
            THEN /\ kwargs' = SampleKwargs(1)
                 /\ UNCHANGED <<pc, exitCode>>
            ELSE /\ pc' = "done" /\ exitCode' = 0
                 /\ UNCHANGED kwargs
    /\ UNCHANGED <<script, apiKey, argWorkspace, argProject,
                   argImage, imgDir, images, labels, splitIdx, pending,
                   cur, resp, setupCalls, fsReads, out, fsChanges>>

Next ==
    \/ LoadEnv
    \/ CheckConfig
    \/ CheckImage
    \/ SampleStart
    \/ ClientInit
    \/ WorkspaceLookup
    \/ ProjectLookup
    \/ NextSplit
    \/ SkipEntry
    \/ NextImage
    \/ EndSplit
    \/ BatchUpload
    \/ BatchReport
    \/ LabelRace
    \/ SingleUpload
    \/ SingleReport
    \/ SampleUpload

Spec == Init /\ [][Next]_vars

---------------------------------------------------------------------------
\* Vocabulary of the properties

Pos(s) == CHOOSE i \in 1..Len(SPLITS) : SPLITS[i] = s

IsOutcome(l) == l.kind \in {"ok", "fail"}

\* the per-asset outcome lines, in the order printed
OutcomeLines == SelectSeq(out, IsOutcome)

OutcomeCount(s, n) ==
    Cardinality({i \in DOMAIN out :
                   IsOutcome(out[i]) /\ out[i].split = s /\ out[i].name = n})

KindCount(k) == Cardinality({i \in DOMAIN out : out[i].kind = k})

SplitKindCount(s, k) ==
    Cardinality({i \in DOMAIN out : out[i].kind = k /\ out[i].split = s})

EndsWith(name, ext) ==
    \E k \in 0..Len(name) : name = SubSeq(name, 1, k) \o ext

\* a name with a non-empty stem and the extension ext, compared in lower case
HasExtension(name, ext) ==
    /\ Len(name) > Len(ext)
    /\ Lower(SubSeq(name, Len(name) - Len(ext) + 1, Len(name))) = ext

\* the assets a batch script is to upload from split s: the image files with
\* a recognized extension (img_etiquetas), the *.jpg entries (subir)
Discovered(s) ==
    IF script = "img_etiquetas"
    THEN {e \in images[s] :
            e.kind = "file" /\ \E x \in EXTS : HasExtension(e.name, x)}
    ELSE {e \in images[s] : EndsWith(e.name, JpgExt)}

AllDiscovered ==
    UNION {{<<s, e>> : e \in Discovered(s)} : s \in SplitNames}

\* the asset is still to be processed by the loops
Ahead(s, e) ==
    \/ Pos(s) > splitIdx
    \/ /\ Pos(s) = splitIdx
       /\ \/ pc = "split"
          \/ e \in pending
          \/ pc \in {"upload", "report"} /\ cur = e.name

\* the annotation file of an image: its name up to the dot of its extension,
\* followed by ".txt"
ExactLabel(img) ==
    LET k == CHOOSE k \in 1..Len(img) :
                 /\ k < Len(img) - 1
                 /\ img[k + 1] = "."
                 /\ \A j \in (k + 2)..Len(img) : img[j] # "."
    IN  SubSeq(img, 1, k) \o TxtExt

---------------------------------------------------------------------------
C4_FailureDoesNotAbort ==
    (script \in Batch /\ KindCount("fail") > 0) =>
        /\ pc # "crashed"
        /\ exitCode \in {NoExit, 0}
        /\ \A p \in AllDiscovered :
              OutcomeCount(p[1], p[2].name) >= 1 \/ Ahead(p[1], p[2])

C4_Witness ==
    /\ script \in Batch /\ pc = "done"
    /\ \E i, j \in DOMAIN out :
         /\ i < j
         /\ out[i].kind = "fail"
         /\ out[j].kind = "ok"

\* C5: a split whose image directory does not exist gets no upload and no
\* outcome, only one informational line, and the run goes on: at the end
\* every split has been visited once, whatever the position of the missing one.
C5_MissingSplitSkipped ==
    script \in Batch =>
        /\ \A s \in SplitNames : imgDir[s] = "missing" =>
              /\ \A i \in DOMAIN uploads : uploads[i].split # s
              /\ SplitKindCount(s, "ok") + SplitKindCount(s, "fail") = 0
              /\ SplitKindCount(s, "header") = 0
              /\ SplitKindCount(s, "warn") =
                    IF pc \notin {"start", "client", "workspace", "project",
                                  "crashed"} /\ splitIdx > Pos(s)
                    THEN 1 ELSE 0
        /\ pc = "done" =>
              \A s \in SplitNames :
                 /\ SplitKindCount(s, "warn") + SplitKindCount(s, "header") = 1
                 /\ \A e \in Discovered(s) : OutcomeCount(s, e.name) = 1

C5_Witness ==
    /\ script \in Batch /\ pc = "done"
    /\ \E s, t \in SplitNames :
         /\ imgDir[s] = "missing" /\ imgDir[t] = "present"
         /\ Pos(s) < Pos(t)
         /\ SplitKindCount(s, "warn") = 1
         /\ SplitKindCount(t, "ok") + SplitKindCount(t, "fail") >= 1

---------------------------------------------------------------------------
\* C6 (as claimed): when a required configuration value is missing (no
\* credential was found; for subir2 also workspace or project), no
\* dataset filesystem access and no remote-client call has happened, and the
\* run does not end successfully.
ConfigMissing ==
    \/ apiKey = "absent"
    \/ script = "subir2" /\ (~argWorkspace \/ ~argProject)

C6_NoAccessBeforeConfigError ==
    ConfigMissing =>
        /\ setupCalls = <<>>
        /\ uploads = <<>>
        /\ fsReads = 0
        /\ Terminated => exitCode \notin {NoExit, 0}

\* C7 (as claimed): a single-asset run ends with the exit code of the first
\* failing step; the upload is attempted only after all earlier steps passed,
\* 7 only when the upload call failed, 0 exactly when it returned.
C7_ExpectedCode ==
    IF ConfigMissing THEN 2
    ELSE IF argImage # "file" THEN 3
    ELSE IF uploads # <<>> THEN (IF uploads[1].ok THEN 0 ELSE 7)
    ELSE IF Len(setupCalls) = 1 THEN 4
    ELSE IF Len(setupCalls) = 2 THEN 5
    ELSE 6

C7_ExitCodeByFirstFailure ==
    script = "subir2" =>
        /\ uploads # <<>> =>
              /\ ~ConfigMissing /\ argImage = "file"
              /\ setupCalls = <<"client", "workspace", "project">>
              /\ Len(uploads) = 1
        /\ pc = "exit" => exitCode = C7_ExpectedCode
        /\ pc # "exit" => exitCode = NoExit

---------------------------------------------------------------------------
\* C8: when img_etiquetas assembles the upload of an image, an annotation
\* path is included if and only if the name <image stem>.txt is present in
\* the split's label directory, and the path is exactly that name; a prefix,
\* a superstring or a case variant of the stem is never attached.
C8_Decision ==
    LET want == ExactLabel(kwargs'.image)
    IN  /\ kwargs'.split = SPLITS[splitIdx]
        /\ kwargs'.ann # NoName <=> want \in labels[SPLITS[splitIdx]]
        /\ kwargs'.ann # NoName => kwargs'.ann = want

---------------------------------------------------------------------------
\* C9 (as claimed): every asset's outcome is printed before the next asset
\* is started, and at the end of the run the last line printed is a summary
\* of the counts.
C9_OutcomesInStep ==
    LET ol == OutcomeLines
    IN  /\ Len(ol) = Len(uploads) - (IF pc = "report" THEN 1 ELSE 0)
        /\ \A i \in 1..Len(ol) :
              /\ ol[i].name = uploads[i].image
              /\ ol[i].split = uploads[i].split
              /\ ol[i].kind = "ok" <=> uploads[i].ok

---------------------------------------------------------------------------
\* C10 (as claimed): every success line of img_etiquetas says "+ label"
\* exactly when the upload call carried an annotation path, and "solo imagen"
\* exactly when it carried none.
C10_TagMatchesUpload ==
    script = "img_etiquetas" =>
        \A i \in 1..Len(OutcomeLines) :
            OutcomeLines[i].kind = "ok" =>
                /\ OutcomeLines[i].tag = "+ label" <=> uploads[i].ann # NoName
                /\ OutcomeLines[i].tag = "solo imagen" <=> uploads[i].ann = NoName

====
